---- MODULE Spec2Model ----
(***************************************************************************)
(* Model of src/tradingbot.py: the MLTrader strategy.                      *)
(*                                                                         *)
(* Numbers.  Cash and prices are integers.  cash_at_risk is held as a      *)
(* numerator over RiskDen (quarters: 1/4, 1/2, 3/4, 1 are exact binary     *)
(* floats, so the float arithmetic of position_sizing is exact on the      *)
(* modelled inputs).  A probability is held in units of 1/ProbScale, so    *)
(* the literal .999 is Threshold.  Order prices (take profit, stop loss)   *)
(* are held in units of 1/PriceScale of the price unit, so last_price *    *)
(* 1.20 is last_price * 120.  Python's None is the string "none".          *)
(***************************************************************************)
EXTENDS Integers, Sequences, FiniteSets

\* ------------------------------------------------------------------ bounds
MaxCash == 3
MaxPrice == 2

\* --------------------------------------------------------- program constants
TICKER == "SPY"
RiskDen == 4
ProbScale == 10000
Threshold == 9990
PriceScale == 100
BuyTakeProfit == 120
BuyStopLoss == 95
SellTakeProfit == 80
SellStopLoss == 105

\* ------------------------------------------------------------ input domains
\* what get_cash() can return
Cashes == (0..MaxCash) \cup {50, 10000}
\* what get_last_price() can return, invalid prices (<= 0) included
Prices == (1..MaxPrice) \cup {-100, 0, 100}
\* the cash_at_risk parameter of initialize, in units of 1/RiskDen
Risks == {1, 2, 4}
\* what estimate_sentiment() can return
Sentiments == {"positive", "negative", "neutral"}
Probabilities == {9980, 9990, 9995}
\* the collaborator call that raises in an iteration, if it is reached
Faults == {"none", "sell_all", "create_order", "submit_order"}

VARIABLES
    cash_at_risk,     \* self.cash_at_risk, numerator over RiskDen
    last_trade,       \* self.last_trade: "none", "buy" or "sell"
    phase,            \* "initialized" until the first iteration, then "iterated"
    prev_last_trade,  \* self.last_trade when the latest iteration began
    cash,             \* locals of the latest iteration
    last_price,
    quantity,
    probability,
    sentiment,
    calls,            \* the calls and assignments the latest iteration completed, in order
    created,          \* the orders create_order returned in the latest iteration
    submitted,        \* the orders submit_order accepted in the latest iteration
    raised,           \* the exception that ended the latest iteration, or "none"
    last_order_side,  \* side of the most recent order submitted in the run, or "none"
    prev_order_side,  \* last_order_side when the latest iteration began
    bought,           \* a buy order has been submitted in the run
    market_price      \* the market's last price when the latest iteration built its order

vars == <<cash_at_risk, last_trade, phase, prev_last_trade, cash, last_price,
          quantity, probability, sentiment, calls, created, submitted, raised,
          last_order_side, prev_order_side, bought, market_price>>

\* ------------------------------------------------------------------ helpers
Abs(x) == IF x < 0 THEN -x ELSE x

Count(seq, x) == Cardinality({i \in DOMAIN seq : seq[i] = x})

Has(seq, x) == \E i \in DOMAIN seq : seq[i] = x

\* a occurs before b in seq
Precedes(seq, a, b) == \E i, j \in DOMAIN seq : i < j /\ seq[i] = a /\ seq[j] = b

\* the steps completed before the faulting call: the call that raises does
\* not complete, and nothing after it runs
Executed(steps, fault) ==
    LET at == {i \in DOMAIN steps : steps[i] = fault}
        cut == IF at = {} THEN Len(steps)
               ELSE (CHOOSE i \in at : \A j \in at : i <= j) - 1
    IN  SubSeq(steps, 1, cut)

\* ------------------------------------------------------------ position_sizing
RoundHalfUp(n, d) ==
    LET nn == IF d < 0 THEN -n ELSE n
        dd == Abs(d)
    IN  (2 * nn + dd) \div (2 * dd)

\* Python's round() of the quotient n/d (d # 0): nearest integer, ties to even
RoundHalfEven(n, d) ==
    LET nn == IF d < 0 THEN -n ELSE n
        dd == Abs(d)
        q == nn \div dd
        r == nn % dd
    IN  IF 2 * r < dd THEN q
        ELSE IF 2 * r > dd THEN q + 1
        ELSE IF q % 2 = 0 THEN q ELSE q + 1

Multiplied(c, risk, price) == RoundHalfEven(c * risk * price, RiskDen)

\* round(cash * self.cash_at_risk / last_price), last_price # 0
position_sizing(c, risk, price) == RoundHalfEven(c * risk, RiskDen * price)

\* the calls position_sizing makes before it divides (lines 70-71)
SizingCalls == <<"get_cash", "get_last_price">>

\* the calls get_sentiment makes (get_dates, get_news, estimate_sentiment)
SentimentCalls == <<"get_datetime", "get_news", "estimate_sentiment">>

\* ------------------------------------------------------- on_trading_iteration
BuyBranchOrEqual(c, price) == c >= price

\* if cash > last_price:
BuyBranch(c, price) == c > price

BuySignalAtThreshold(s, p) == s = "positive" /\ p >= Threshold

\* if sentiment == "positive" and probability > .999:
BuySignal(s, p) == s = "positive" /\ p > Threshold

\* elif sentiment == "negative" and probability > .999:
SellSignal(s, p) == s = "negative" /\ p > Threshold

BranchFlat(c, price, s, p) ==
    IF BuyBranch(c, price) /\ BuySignal(s, p) THEN "buy"
    ELSE IF SellSignal(s, p) THEN "sell" ELSE "hold"

\* the branch an iteration takes
Branch(c, price, s, p) ==
    IF BuyBranch(c, price)
    THEN IF BuySignal(s, p) THEN "buy" ELSE "hold"
    ELSE IF SellSignal(s, p) THEN "sell" ELSE "hold"

BuyStepsCommitFirst(lt) ==
    (IF lt = "sell" THEN <<"sell_all">> ELSE <<>>)
        \o <<"create_order", "set_last_trade", "submit_order">>

BuyStepsAlwaysLiquidate(lt) ==
    <<"sell_all", "create_order", "submit_order", "set_last_trade">>

BuyStepsLiquidateAfterBuy(lt) ==
    (IF lt = "buy" THEN <<"sell_all">> ELSE <<>>)
        \o <<"create_order", "submit_order", "set_last_trade">>

\* the body of the buy branch: sell_all only after a sell, then the order
BuySteps(lt) ==
    (IF lt = "sell" THEN <<"sell_all">> ELSE <<>>)
        \o <<"create_order", "submit_order", "set_last_trade">>

SellStepsNoLiquidation(lt) ==
    IF lt = "buy"
    THEN <<"create_order", "submit_order", "set_last_trade">>
    ELSE <<>>

SellStepsCommitFirst(lt) ==
    IF lt = "buy"
    THEN <<"sell_all", "create_order", "set_last_trade", "submit_order">>
    ELSE <<>>

\* the body of the sell branch: everything is inside `if self.last_trade == "buy"`
SellSteps(lt) ==
    IF lt = "buy"
    THEN <<"sell_all", "create_order", "submit_order", "set_last_trade">>
    ELSE <<>>

BuyOrderSwapped(q, price) ==
    [symbol |-> TICKER, quantity |-> q, side |-> "buy", type |-> "bracket",
     take_profit_price |-> price * BuyStopLoss,
     stop_loss_price |-> price * BuyTakeProfit]

OrderPriceReread(read, market) == market

\* the last_price the order is built from: the local returned by
\* position_sizing (read), not a second get_last_price() (market)
OrderPrice(read, market) == read

\* create_order(self.symbol, quantity, "buy", type="bracket", ...)
BuyOrder(q, price) ==
    [symbol |-> TICKER, quantity |-> q, side |-> "buy", type |-> "bracket",
     take_profit_price |-> price * BuyTakeProfit,
     stop_loss_price |-> price * BuyStopLoss]

SellOrderSwapped(q, price) ==
    [symbol |-> TICKER, quantity |-> q, side |-> "sell", type |-> "bracket",
     take_profit_price |-> price * SellStopLoss,
     stop_loss_price |-> price * SellTakeProfit]

\* create_order(self.symbol, quantity, "sell", type="bracket", ...)
SellOrder(q, price) ==
    [symbol |-> TICKER, quantity |-> q, side |-> "sell", type |-> "bracket",
     take_profit_price |-> price * SellTakeProfit,
     stop_loss_price |-> price * SellStopLoss]

\* self.last_trade = "buy" at the end of the buy branch
LastTradeAfterBuy == "buy"

LastTradeAfterSellIsSell == "sell"

\* self.last_trade = "buy" at the end of the sell branch
LastTradeAfterSell == "buy"

\* One call of on_trading_iteration from self.last_trade = lt, with the values
\* the collaborators return (c, price, s, p), the call that raises (fault) and
\* the market's last price when the order is built (market).
Iteration(lt, risk, c, price, s, p, fault, market) ==
    IF price = 0
    THEN \* round(cash * self.cash_at_risk / last_price) divides by zero
         [quantity |-> 0, calls |-> SizingCalls, created |-> <<>>,
          submitted |-> <<>>, raised |-> "ZeroDivisionError", last_trade |-> lt]
    ELSE
    LET q == position_sizing(c, risk, price)
        branch == Branch(c, price, s, p)
        steps == IF branch = "buy" THEN BuySteps(lt)
                 ELSE IF branch = "sell" THEN SellSteps(lt)
                 ELSE <<>>
        done == Executed(steps, fault)
        at == OrderPrice(price, market)
        order == IF branch = "buy" THEN BuyOrder(q, at) ELSE SellOrder(q, at)
    IN  [quantity |-> q,
         calls |-> SizingCalls \o SentimentCalls \o done,
         created |-> [i \in 1..Count(done, "create_order") |-> order],
         submitted |-> [i \in 1..Count(done, "submit_order") |-> order],
         raised |-> IF Has(steps, fault) THEN fault ELSE "none",
         last_trade |-> IF Has(done, "set_last_trade")
                        THEN IF branch = "buy" THEN LastTradeAfterBuy
                             ELSE LastTradeAfterSell
                        ELSE lt]

\* ------------------------------------------------------------- specification
\* the state after initialize(): last_trade is None, no iteration has run
Init ==
    /\ cash_at_risk \in Risks
    /\ last_trade = "none"
    /\ phase = "initialized"
    /\ prev_last_trade = "none"
    /\ cash = 0
    /\ last_price = 0
    /\ quantity = 0
    /\ probability = 0
    /\ sentiment = "neutral"
    /\ calls = <<>>
    /\ created = <<>>
    /\ submitted = <<>>
    /\ raised = "none"
    /\ last_order_side = "none"
    /\ prev_order_side = "none"
    /\ bought = FALSE
    /\ market_price = 0

\* how far the market's last price can move between position_sizing and the
\* construction of the order; an iteration that takes no branch builds none
MarketMoves(c, price, s, p) ==
    IF Branch(c, price, s, p) = "hold" THEN {0} ELSE {0, 1}

on_trading_iteration ==
    \E c \in Cashes, price \in Prices, s \in Sentiments,
       p \in Probabilities, fault \in Faults :
      \E move \in MarketMoves(c, price, s, p) :
        \E r \in {Iteration(last_trade, cash_at_risk, c, price, s, p, fault,
                            price + move)} :
            /\ phase' = "iterated"
            /\ prev_last_trade' = last_trade
            /\ cash' = c
            /\ last_price' = price
            /\ probability' = p
            /\ sentiment' = s
            /\ quantity' = r.quantity
            /\ calls' = r.calls
            /\ created' = r.created
            /\ submitted' = r.submitted
            /\ raised' = r.raised
            /\ last_trade' = r.last_trade
            /\ last_order_side' = IF r.submitted # <<>>
                                  THEN r.submitted[Len(r.submitted)].side
                                  ELSE last_order_side
            /\ prev_order_side' = last_order_side
            /\ bought' = (bought \/ \E i \in DOMAIN r.submitted :
                                        r.submitted[i].side = "buy")
            /\ market_price' = price + move
            /\ UNCHANGED cash_at_risk

Next == on_trading_iteration

Spec == Init /\ [][Next]_vars

\* ---------------------------------------------------------------------- C1
\* C1: in every iteration at most one order is created and at most one is
\* submitted, and an order with side "buy" is created only if cash > last_price
\* in that iteration.
C1_AtMostOneOrderBuyOnlyWithCash ==
    /\ Len(created) <= 1
    /\ Len(submitted) <= 1
    /\ Count(calls, "create_order") <= 1
    /\ Count(calls, "submit_order") <= 1
    /\ \A i \in DOMAIN created : created[i].side = "buy" => cash > last_price

C1_Witness ==
    /\ phase = "iterated"
    /\ Len(submitted) = 1
    /\ submitted[1].side = "buy"
    /\ cash > last_price

\* ---------------------------------------------------------------------- C2
\* C2: in an iteration that creates a buy order while last_trade was "sell",
\* sell_all precedes create_order in the iteration's calls; in an iteration
\* that creates a sell order while last_trade was "buy", sell_all precedes
\* create_order.  No run reaches last_trade = "sell", so the buy half is also
\* evaluated on the iteration's own inputs re-run from last_trade = "sell".
C2_LiquidationPrecedesReversal ==
    /\ \A i \in DOMAIN created :
        /\ (created[i].side = "buy" /\ prev_last_trade = "sell")
               => Precedes(calls, "sell_all", "create_order")
        /\ (created[i].side = "sell" /\ prev_last_trade = "buy")
               => Precedes(calls, "sell_all", "create_order")
    /\ phase = "iterated" =>
        \A fault \in Faults :
            LET r == Iteration("sell", cash_at_risk, cash, last_price,
                               sentiment, probability, fault, market_price)
            IN  \A i \in DOMAIN r.created :
                    r.created[i].side = "buy"
                        => Precedes(r.calls, "sell_all", "create_order")

C2_Witness ==
    /\ phase = "iterated"
    /\ prev_last_trade = "buy"
    /\ Len(submitted) = 1
    /\ submitted[1].side = "sell"
    /\ Precedes(calls, "sell_all", "create_order")

\* ---------------------------------------------------------------------- C3
\* C3: in every iteration with a valid price where cash <= last_price, the
\* sentiment is negative with probability > .999 and no call raises, a sell
\* order is submitted whatever last_trade was, and sell_all is called exactly
\* when last_trade was "buy".
C3_SellForEveryLastTrade ==
    (/\ phase = "iterated"
     /\ last_price > 0
     /\ cash <= last_price
     /\ sentiment = "negative"
     /\ probability > Threshold
     /\ raised = "none")
        => /\ Len(submitted) = 1
           /\ submitted[1].side = "sell"
           /\ Has(calls, "sell_all") <=> prev_last_trade = "buy"

\* ---------------------------------------------------------------------- C4
\* C4: in every iteration with a valid price where cash > last_price, the
\* sentiment is positive with probability > .999 and no call raises, exactly
\* one order is created and submitted: a bracket buy order for the sized
\* quantity with take profit last_price * 1.20 and stop loss last_price * 0.95,
\* and last_trade is "buy" afterwards.  With cash 10000, price 100 and
\* cash_at_risk 0.5 the order is Buy(50, 120, 95).
C4_BuyOrderEmitted ==
    (/\ phase = "iterated"
     /\ last_price > 0
     /\ cash > last_price
     /\ sentiment = "positive"
     /\ probability > Threshold
     /\ raised = "none")
        => /\ Len(created) = 1
           /\ submitted = created
           /\ submitted[1].symbol = TICKER
           /\ submitted[1].side = "buy"
           /\ submitted[1].type = "bracket"
           /\ submitted[1].quantity = quantity
           /\ submitted[1].take_profit_price * 100 = last_price * 120 * PriceScale
           /\ submitted[1].stop_loss_price * 100 = last_price * 95 * PriceScale
           /\ last_trade = "buy"
           /\ (cash = 10000 /\ last_price = 100 /\ cash_at_risk * 2 = RiskDen)
                => /\ submitted[1].quantity = 50
                   /\ submitted[1].take_profit_price = 120 * PriceScale
                   /\ submitted[1].stop_loss_price = 95 * PriceScale

C4_Witness ==
    /\ phase = "iterated"
    /\ prev_last_trade = "none"
    /\ cash = 10000
    /\ last_price = 100
    /\ cash_at_risk * 2 = RiskDen
    /\ sentiment = "positive"
    /\ probability = 9995
    /\ Len(submitted) = 1
    /\ submitted[1].side = "buy"
    /\ submitted[1].quantity = 50
    /\ last_trade = "buy"

\* ---------------------------------------------------------------------- C5
\* C5: in every iteration where the probability is <= .999 (.999 itself
\* included), whatever the label, cash, price and last_trade, no order is
\* created or submitted, sell_all is not called and last_trade is unchanged.
C5_NoDecisionBelowThreshold ==
    (phase = "iterated" /\ probability <= Threshold)
        => /\ created = <<>>
           /\ submitted = <<>>
           /\ ~Has(calls, "sell_all")
           /\ last_trade = prev_last_trade

C5_Witness ==
    /\ phase = "iterated"
    /\ probability = Threshold
    /\ sentiment = "positive"
    /\ last_price > 0
    /\ cash > last_price
    /\ raised = "none"
    /\ created = <<>>

\* ---------------------------------------------------------------------- C6
\* C6: after any sequence of iterations last_trade equals the side of the most
\* recently submitted order ("none" if no order has been submitted).
C6_LastTradeIsLastOrderSide == last_trade = last_order_side

\* ---------------------------------------------------------------------- C7
\* C7: if create_order or submit_order raises in an iteration, no order is
\* submitted, the assignment to last_trade does not run and last_trade is what
\* it was when the iteration began, in the buy and in the sell branch.
C7_FailedSubmissionKeepsLastTrade ==
    raised \in {"create_order", "submit_order"}
        => /\ submitted = <<>>
           /\ ~Has(calls, "set_last_trade")
           /\ last_trade = prev_last_trade

C7_Witness ==
    /\ phase = "iterated"
    /\ raised = "submit_order"
    /\ Len(created) = 1
    /\ created[1].side = "buy"
    /\ prev_last_trade = "none"
    /\ last_trade = "none"

\* ---------------------------------------------------------------------- C8
\* C8: in every iteration where last_price <= 0 there is no division error and
\* no negative quantity, and the iteration decides nothing: no order, no
\* sell_all, last_trade unchanged.
C8_InvalidPriceNoDecision ==
    (phase = "iterated" /\ last_price <= 0)
        => /\ raised # "ZeroDivisionError"
           /\ quantity >= 0
           /\ created = <<>>
           /\ ~Has(calls, "sell_all")
           /\ last_trade = prev_last_trade

\* ---------------------------------------------------------------------- C9
\* C9: for every cash >= 0, last_price > 0 and cash_at_risk, the quantity is
\* the integer nearest to cash * cash_at_risk / last_price, the even one of the
\* two when the quotient lies halfway, and is >= 0; cash 10000, price 100 and
\* cash_at_risk 0.5 give 50.
C9_QuantityIsRoundHalfEven ==
    (phase = "iterated" /\ last_price > 0)
        => LET n == cash * cash_at_risk
               d == RiskDen * last_price
               off == Abs(quantity * d - n)
           IN  /\ 2 * off <= d
               /\ 2 * off = d => quantity % 2 = 0
               /\ quantity >= 0
               /\ (cash = 10000 /\ last_price = 100 /\ cash_at_risk * 2 = RiskDen)
                    => quantity = 50

C9_Witness ==
    /\ phase = "iterated"
    /\ cash = 3
    /\ last_price = 1
    /\ cash_at_risk * 2 = RiskDen
    /\ quantity = 2

\* --------------------------------------------------------------------- C10
\* C10: for the cash_at_risk of the run and valid prices, the quantity does
\* not decrease when cash grows at the same last_price and does not increase
\* when last_price grows at the same cash, rounding ties included.
C10_QuantityMonotone ==
    (phase = "iterated" /\ last_price > 0)
        => /\ \A c2 \in Cashes :
                c2 >= cash => position_sizing(c2, cash_at_risk, last_price) >= quantity
           /\ \A p2 \in Prices :
                p2 >= last_price => position_sizing(cash, cash_at_risk, p2) <= quantity

C10_Witness ==
    /\ phase = "iterated"
    /\ cash = 3
    /\ last_price = 1
    /\ quantity = 2
    /\ \E p2 \in Prices :
        p2 > last_price /\ position_sizing(cash, cash_at_risk, p2) < quantity
    /\ \E c2 \in Cashes :
        c2 < cash /\ position_sizing(c2, cash_at_risk, last_price) = 0

\* --------------------------------------------------------------------- C11
\* the place of a call in the order the claim gives
CallRank(call) ==
    CASE call = "get_cash" -> 1
      [] call = "get_last_price" -> 2
      [] call = "get_datetime" -> 3
      [] call = "get_news" -> 4
      [] call = "estimate_sentiment" -> 5
      [] call = "sell_all" -> 6
      [] call = "create_order" -> 7
      [] call = "submit_order" -> 8
      [] call = "set_last_trade" -> 9

\* C11: the calls of an iteration are made in this order: the sizing reads
\* (cash, last price), the sentiment reads (news, scoring), then sell_all (if
\* any), create_order, submit_order, and only then the assignment to
\* last_trade; the assignment never runs without a submit_order before it.
C11_StepsInOrder ==
    /\ \A i, j \in DOMAIN calls :
        i < j => CallRank(calls[i]) < CallRank(calls[j])
    /\ Has(calls, "set_last_trade")
        => Precedes(calls, "submit_order", "set_last_trade")
    /\ (Has(calls, "sell_all") \/ Has(calls, "create_order"))
        => Precedes(calls, "get_last_price", "estimate_sentiment")

C11_Witness ==
    /\ phase = "iterated"
    /\ calls = <<"get_cash", "get_last_price", "get_datetime", "get_news",
                 "estimate_sentiment", "sell_all", "create_order",
                 "submit_order", "set_last_trade">>

\* --------------------------------------------------------------------- C12
\* C12: an iteration reads the last price once, and the quantity, take profit
\* and stop loss of the order it creates all come from that reading
\* (last_price), also when the market price has moved by the time the order
\* is built.
C12_OneLastPriceReading ==
    /\ Count(calls, "get_last_price") <= 1
    /\ \A i \in DOMAIN created :
        /\ Count(calls, "get_last_price") = 1
        /\ created[i].quantity = position_sizing(cash, cash_at_risk, last_price)
        /\ created[i].side = "buy"
            => /\ created[i].take_profit_price * 100 = last_price * 120 * PriceScale
               /\ created[i].stop_loss_price * 100 = last_price * 95 * PriceScale
        /\ created[i].side = "sell"
            => /\ created[i].take_profit_price * 100 = last_price * 80 * PriceScale
               /\ created[i].stop_loss_price * 100 = last_price * 105 * PriceScale

C12_Witness ==
    /\ phase = "iterated"
    /\ Len(submitted) = 1
    /\ last_price > 0
    /\ market_price # last_price

\* --------------------------------------------------------------------- C13
\* C13: a sell order is created only in an iteration where cash <= last_price;
\* in an iteration where cash > last_price and the sentiment is negative, at
\* any probability, no order is created, sell_all is not called and last_trade
\* is unchanged.
C13_BranchExclusivity ==
    /\ \A i \in DOMAIN created : created[i].side = "sell" => cash <= last_price
    /\ (phase = "iterated" /\ cash > last_price /\ sentiment = "negative")
        => /\ created = <<>>
           /\ submitted = <<>>
           /\ ~Has(calls, "sell_all")
           /\ last_trade = prev_last_trade

C13_Witness ==
    /\ phase = "iterated"
    /\ last_price > 0
    /\ cash > last_price
    /\ sentiment = "negative"
    /\ probability > Threshold
    /\ prev_last_trade = "buy"
    /\ raised = "none"
    /\ created = <<>>

\* --------------------------------------------------------------------- C14
\* C14: last_trade is None when the strategy starts, and an iteration changes
\* it only if it submitted an order; an iteration that submits none leaves it
\* as it was.
C14_LastTradeChangesOnlyOnOrder ==
    /\ phase = "initialized" => last_trade = "none"
    /\ last_trade # prev_last_trade => submitted # <<>>

C14_Witness ==
    /\ phase = "iterated"
    /\ prev_last_trade = "none"
    /\ last_trade = "buy"
    /\ Len(submitted) = 1

\* --------------------------------------------------------------------- C15
\* C15: every sell order is a bracket order for the symbol with the sized
\* quantity, take profit last_price * 0.80 and stop loss last_price * 1.05, so
\* with last_price > 0 a sell has take profit < last_price < stop loss and a
\* buy has stop loss < last_price < take profit; cash 50 and price 100 give
\* Sell(0, 80, 105).
C15_SellOrderBracket ==
    \A i \in DOMAIN created :
        /\ created[i].side = "sell"
            => /\ created[i].symbol = TICKER
               /\ created[i].type = "bracket"
               /\ created[i].quantity = quantity
               /\ created[i].take_profit_price * 100 = last_price * 80 * PriceScale
               /\ created[i].stop_loss_price * 100 = last_price * 105 * PriceScale
               /\ last_price > 0
                    => /\ created[i].take_profit_price < last_price * PriceScale
                       /\ last_price * PriceScale < created[i].stop_loss_price
               /\ (cash = 50 /\ last_price = 100 /\ cash_at_risk * 2 = RiskDen)
                    => /\ created[i].quantity = 0
                       /\ created[i].take_profit_price = 80 * PriceScale
                       /\ created[i].stop_loss_price = 105 * PriceScale
        /\ (created[i].side = "buy" /\ last_price > 0)
            => /\ created[i].stop_loss_price < last_price * PriceScale
               /\ last_price * PriceScale < created[i].take_profit_price

C15_Witness ==
    /\ phase = "iterated"
    /\ Len(submitted) = 1
    /\ submitted[1].side = "sell"
    /\ cash = 50
    /\ last_price = 100
    /\ cash_at_risk * 2 = RiskDen

\* --------------------------------------------------------------------- C16
\* C16: after an iteration that submits a sell order last_trade is "buy", not
\* "sell"; so an iteration that follows a submitted sell order and meets the
\* sell condition again (no call raising) calls sell_all and submits another
\* sell order.
C16_SellLeavesLastTradeBuy ==
    /\ \A i \in DOMAIN submitted : submitted[i].side = "sell" => last_trade = "buy"
    /\ (/\ phase = "iterated"
        /\ prev_order_side = "sell"
        /\ last_price > 0
        /\ cash <= last_price
        /\ sentiment = "negative"
        /\ probability > Threshold
        /\ raised = "none")
        => /\ Has(calls, "sell_all")
           /\ Len(submitted) = 1
           /\ submitted[1].side = "sell"

C16_Witness ==
    /\ phase = "iterated"
    /\ prev_order_side = "sell"
    /\ Has(calls, "sell_all")
    /\ Len(submitted) = 1
    /\ submitted[1].side = "sell"
    /\ last_trade = "buy"

\* --------------------------------------------------------------------- C17
\* C17: no order is submitted whose side is the side of the order submitted
\* before it, and no buy order is created in an iteration that starts with
\* last_trade = "buy" (stated for iterations with a valid price).
C17_NoRepeatedSide ==
    last_price > 0
        => /\ \A i \in DOMAIN submitted : submitted[i].side # prev_order_side
           /\ \A i \in DOMAIN created :
                created[i].side = "buy" => prev_last_trade # "buy"

\* C17 as amended: an order can repeat the side of the order before it; what
\* last_trade avoids is the liquidation: an iteration that creates an order
\* whose side is last_trade at its start does not call sell_all.
C17_NoRedundantLiquidation ==
    \A i \in DOMAIN created :
        created[i].side = prev_last_trade => ~Has(calls, "sell_all")

C17_Witness ==
    /\ phase = "iterated"
    /\ prev_last_trade = "buy"
    /\ prev_order_side = "buy"
    /\ Len(submitted) = 1
    /\ submitted[1].side = "buy"
    /\ ~Has(calls, "sell_all")

\* --------------------------------------------------------------------- C18
\* C18: last_trade is None or "buy" in every state and never "sell"; once it
\* is "buy" it stays "buy"; and no iteration that creates a buy order calls
\* sell_all.
C18_LastTradeNeverSell ==
    /\ last_trade \in {"none", "buy"}
    /\ prev_last_trade \in {"none", "buy"}
    /\ prev_last_trade = "buy" => last_trade = "buy"
    /\ \A i \in DOMAIN created : created[i].side = "buy" => ~Has(calls, "sell_all")

C18_Witness ==
    /\ phase = "iterated"
    /\ prev_last_trade = "buy"
    /\ Len(submitted) = 1
    /\ submitted[1].side = "sell"
    /\ last_trade = "buy"

\* --------------------------------------------------------------------- C19
\* sell_all is the call right before create_order
LiquidatedJustBefore(seq) ==
    \E i \in DOMAIN seq :
        /\ seq[i] = "sell_all"
        /\ i + 1 \in DOMAIN seq
        /\ seq[i + 1] = "create_order"

\* C19: a sell order is created only after a buy order was submitted in an
\* earlier iteration, and sell_all is the call right before its create_order;
\* and sell_all is never called in an iteration that creates no order.
C19_LiquidationOnlyWithOrder ==
    /\ \A i \in DOMAIN created :
        created[i].side = "sell" => bought /\ LiquidatedJustBefore(calls)
    /\ Has(calls, "sell_all") => created # <<>>

====
